---- MODULE Spec2Model ----
(***************************************************************************)
(* A model of main.py of my-dart-monitor: the run orchestrator main(), the *)
(* cursor file it loads and rewrites, the filing lister, the per-filing    *)
(* extract / summarize / notify pipeline, and the length cap that          *)
(* analyze_content puts on the extracted text.                             *)
(*                                                                         *)
(* Receipt identifiers are fixed-width digit strings in the program; their *)
(* string order is their numeric order, so they are modelled as the        *)
(* naturals 1..MaxRcept, and the all-zeros default as 0.                   *)
(* Texts are sequences of Unicode code points.                             *)
(***************************************************************************)
EXTENDS Integers, Sequences, FiniteSets, TLC

\* ------------------------------------------------------------------ bounds
MaxRcept == 2
MaxRuns == 2
MaxFaults == 2
MaxOver == 2
MaxShort == 2

\* ------------------------------------------------------- program constants
\* "00000000000000", the cursor of an entity with no entry
DefaultRcept == 0
\* max_length in analyze_content
max_length == 15000

\* the text appended to a cut text: "\n...(" + 13 Hangul/space characters + ")"
TruncationMarker ==
    << 10, 46, 46, 46, 40, 45236, 50857, 51060, 32, 45320, 47924, 32,
       44600, 50612, 32, 49373, 47029, 46120, 41 >>

\* the names that can appear in companies.txt
CompanyNames == {"c1", "c2"}
Rcepts == 1..MaxRcept

VARIABLES
    stateFile,        \* contents of STATE_FILE: company name -> rcept_no
    corp_codes,       \* names that CORP_CODE_FILE resolves during this run
    filer,            \* the company each receipt number was filed by
    runs,             \* runs of main() started so far
    pc,               \* position of the current run of main()
    state,            \* main(): the mapping loaded at the start of the run
    updated_state,    \* main(): the mapping being updated
    companies,        \* main(): the watch list, in file order
    idx,              \* main(): position of the for loop in companies
    new_filings,      \* main(): rows not yet processed (head = current row)
    raw_content,      \* analyze_content: what the extractor returned
    ai_result,        \* main(): what analyze_content returned
    listed,           \* this run: the receipt numbers listed, per company
    last_list,        \* this run: the list of the last API answer, as returned
    events,           \* this run: the pipeline steps taken, in order
    sent,             \* this run: the send_telegram calls that returned
    writes,           \* this run: writes of STATE_FILE
    failedAt,         \* this run: the call whose exception ended the run
    notifyCount,      \* all runs: send_telegram calls that returned, per filing
    delivered,        \* all runs: filings the chat endpoint accepted
    degraded,         \* all runs: filings whose extraction or completion failed
    faults,           \* all runs: failures of the outside world so far
    raw_text,         \* analyze_content, text level: the extracted text
    content_to_analyze,  \* analyze_content, text level: the capped text
    tpc               \* analyze_content, text level: position

vars == << stateFile, corp_codes, filer, runs, pc, state, updated_state,
           companies, idx, new_filings, raw_content, ai_result, listed,
           last_list, events, sent, writes, failedAt, notifyCount, delivered,
           degraded, faults, raw_text, content_to_analyze, tpc >>

runVars == << stateFile, corp_codes, filer, runs, pc, state, updated_state,
              companies, idx, new_filings, raw_content, ai_result, listed,
              last_list, events, sent, writes, failedAt, notifyCount,
              delivered, degraded, faults >>

textVars == << raw_text, content_to_analyze, tpc >>

\* ------------------------------------------------------------ mappings
EmptyMap == << >>

\* dict.get(name, default)
DictGet(d, name, default) == IF name \in DOMAIN d THEN d[name] ELSE default

\* d.setdefault(name, value): an entry, once there, is never overwritten
DictSet_IfAbsent(d, name, value) ==
    IF name \in DOMAIN d THEN d
    ELSE [k \in DOMAIN d \cup {name} |-> IF k = name THEN value ELSE d[k]]

\* d[name] = value
DictSet(d, name, value) ==
    [k \in DOMAIN d \cup {name} |-> IF k = name THEN value ELSE d[k]]

Range(s) == {s[i] : i \in DOMAIN s}

\* sequences without repetition over S, of every length
Injective(s) == \A i, j \in DOMAIN s : i # j => s[i] # s[j]
ListsOver(S) ==
    {s \in UNION {[1..n -> S] : n \in 0..Cardinality(S)} : Injective(s)}

\* The watch lists: companies.txt, no name twice (the data model's assumption)
WatchLists == ListsOver(CompanyNames)

\* ------------------------------------------------- get_corp_code_from_file
None == "None"
CodeOf(name) == "code_" \o name

\* a lookup that answers with a code also for a name the file does not hold
get_corp_code_from_file_Fallback(codes, target_corp_name) ==
    CodeOf(target_corp_name)

\* the code of the <list> element whose corp_name is the name, else None
\* (also None when the file is missing or does not parse)
get_corp_code_from_file(codes, target_corp_name) ==
    IF target_corp_name \in codes THEN CodeOf(target_corp_name) ELSE None

\* ------------------------------------------------------ get_recent_filings
\* What requests.get / res.json() give for list.json:
\*   network_error  requests.get raises
\*   bad_body       the body is not JSON, res.json() raises
\*   json           a JSON object with a status and (perhaps) a list
Responses(own) ==
    {[kind |-> "network_error", status |-> "", list |-> << >>],
     [kind |-> "bad_body", status |-> "", list |-> << >>],
     [kind |-> "json", status |-> "013", list |-> << >>]}
    \cup {[kind |-> "json", status |-> "000", list |-> l] :
              l \in ListsOver(own)}

RECURSIVE InsertAscending(_, _)
InsertAscending(x, s) ==
    IF s = << >> THEN << x >>
    ELSE IF x <= Head(s) THEN << x >> \o s
    ELSE << Head(s) >> \o InsertAscending(x, Tail(s))

\* the frame left in the order the API gave
sort_values_Unsorted(df) == df

\* df.sort_values(by='rcept_no', ascending=True)
RECURSIVE sort_values(_)
sort_values(df) ==
    IF df = << >> THEN << >>
    ELSE InsertAscending(Head(df), sort_values(Tail(df)))

\* The outcome of get_recent_filings: it raises, or returns a frame of rows.
\* An empty list under status '000' has no 'rcept_dt' column: KeyError.
get_recent_filings(resp) ==
    IF resp.kind # "json" THEN [raised |-> TRUE, df |-> << >>]
    ELSE IF resp.status = "000"
         THEN IF resp.list = << >> THEN [raised |-> TRUE, df |-> << >>]
              ELSE [raised |-> FALSE, df |-> sort_values(resp.list)]
         ELSE [raised |-> FALSE, df |-> << >>]

\* df[df['rcept_no'] > last_rcept_no]
SelectNew(df, last_rcept_no) == SelectSeq(df, LAMBDA r : r > last_rcept_no)

\* ------------------------------------------------------------------ main
Ended == pc \in {"idle", "done", "aborted", "returned"}

corp_name == companies[idx]
row == Head(new_filings)

Init_run ==
    /\ stateFile = EmptyMap
    /\ corp_codes = {}
    /\ filer \in [Rcepts -> CompanyNames]
    /\ runs = 0
    /\ pc = "idle"
    /\ state = EmptyMap
    /\ updated_state = EmptyMap
    /\ companies \in WatchLists
    /\ idx = 1
    /\ new_filings = << >>
    /\ raw_content = "none"
    /\ ai_result = "none"
    /\ listed = [c \in CompanyNames |-> {}]
    /\ last_list = << >>
    /\ events = << >>
    /\ sent = << >>
    /\ writes = 0
    /\ failedAt = "none"
    /\ notifyCount = [r \in Rcepts |-> 0]
    /\ delivered = {}
    /\ degraded = {}
    /\ faults = 0

Init_text ==
    /\ raw_text = << >>
    /\ content_to_analyze = << >>
    /\ tpc = "idle"

Init == Init_run /\ Init_text

\* what a run starts from, whatever the previous run left
ResetRun ==
    /\ runs' = runs + 1
    /\ state' = stateFile
    /\ new_filings' = << >>
    /\ raw_content' = "none"
    /\ ai_result' = "none"
    /\ listed' = [c \in CompanyNames |-> {}]
    /\ last_list' = << >>
    /\ events' = << >>
    /\ sent' = << >>
    /\ writes' = 0
    /\ failedAt' = "none"
    /\ idx' = 1

\* main(), COMPANIES_FILE missing: print and return
MainNoCompaniesFile ==
    /\ Ended /\ runs < MaxRuns
    /\ ResetRun
    /\ pc' = "returned"
    /\ UNCHANGED << stateFile, corp_codes, filer, companies, updated_state,
                    notifyCount, delivered, degraded, faults >>

\* main(), up to the for loop: load the mapping, read the list, copy
MainLoad ==
    /\ Ended /\ runs < MaxRuns
    /\ ResetRun
    /\ \E codes \in SUBSET CompanyNames : corp_codes' = codes
    /\ updated_state' = stateFile
    /\ pc' = "loop"
    /\ UNCHANGED << stateFile, filer, companies, notifyCount, delivered,
                    degraded, faults >>

\* for corp_name in companies: no code -> continue
SkipUnresolved ==
    /\ pc = "loop" /\ idx <= Len(companies)
    /\ get_corp_code_from_file(corp_codes, corp_name) = None
    /\ idx' = idx + 1
    /\ UNCHANGED << stateFile, corp_codes, filer, runs, pc, state,
                    updated_state, companies, new_filings, raw_content,
                    ai_result, listed, last_list, events, sent, writes,
                    failedAt, notifyCount, delivered, degraded, faults >>

\* df = get_recent_filings(code) and the selection of the new rows
ListFilings ==
    /\ pc = "loop" /\ idx <= Len(companies)
    /\ get_corp_code_from_file(corp_codes, corp_name) # None
    /\ \E resp \in Responses({r \in Rcepts : filer[r] = corp_name}) :
        LET got == get_recent_filings(resp)
            last_rcept_no == DictGet(state, corp_name, DefaultRcept)
            new == SelectNew(got.df, last_rcept_no)
        IN  /\ got.raised => faults < MaxFaults
            /\ faults' = IF got.raised THEN faults + 1 ELSE faults
            /\ listed' = [listed EXCEPT ![corp_name] = Range(resp.list)]
            /\ last_list' = resp.list
            /\ IF got.raised
               THEN /\ pc' = "aborted"
                    /\ failedAt' = "get_recent_filings"
                    /\ UNCHANGED << idx, new_filings >>
               ELSE IF got.df = << >> \/ new = << >>
               THEN /\ idx' = idx + 1
                    /\ UNCHANGED << pc, failedAt, new_filings >>
               ELSE /\ new_filings' = new
                    /\ pc' = "extract"
                    /\ UNCHANGED << idx, failedAt >>
    /\ UNCHANGED << stateFile, corp_codes, filer, runs, state, updated_state,
                    companies, raw_content, ai_result, events, sent, writes,
                    notifyCount, delivered, degraded >>

\* analyze_content: raw_content = fetch_and_extract_dart_content(...),
\* which returns the cleaned text or, on any exception, an error string
Extract ==
    /\ pc = "extract"
    /\ \E r \in {"text", "error_string"} :
        /\ r = "error_string" => faults < MaxFaults
        /\ faults' = IF r = "error_string" THEN faults + 1 ELSE faults
        /\ raw_content' = r
        /\ degraded' = IF r = "error_string"
                       THEN degraded \cup {row} ELSE degraded
    /\ events' = Append(events, << "extract", idx, row >>)
    /\ pc' = "summarize"
    /\ UNCHANGED << stateFile, corp_codes, filer, runs, state, updated_state,
                    companies, idx, new_filings, ai_result, listed, last_list,
                    sent, writes, failedAt, notifyCount, delivered >>

\* analyze_content: the completion call, its text or "AI 분석 실패: ..."
Summarize ==
    /\ pc = "summarize"
    /\ \E r \in {"verdict", "failure_placeholder"} :
        /\ r = "failure_placeholder" => faults < MaxFaults
        /\ faults' = IF r = "failure_placeholder" THEN faults + 1 ELSE faults
        /\ ai_result' = r
        /\ degraded' = IF r = "failure_placeholder"
                       THEN degraded \cup {row} ELSE degraded
    /\ events' = Append(events, << "summarize", idx, row >>)
    /\ pc' = "notify"
    /\ UNCHANGED << stateFile, corp_codes, filer, runs, state, updated_state,
                    companies, idx, new_filings, raw_content, listed,
                    last_list, sent, writes, failedAt, notifyCount,
                    delivered >>

\* send_telegram(msg): requests.post returns (whatever the HTTP status) or
\* raises; then updated_state[corp_name] = row['rcept_no']
Notify ==
    /\ pc = "notify"
    /\ \E outcome \in {"accepted", "rejected", "raised"} :
        /\ outcome # "accepted" => faults < MaxFaults
        /\ faults' = IF outcome # "accepted" THEN faults + 1 ELSE faults
        /\ IF outcome = "raised"
           THEN /\ pc' = "aborted"
                /\ failedAt' = "send_telegram"
                /\ UNCHANGED << updated_state, idx, new_filings, raw_content,
                                ai_result, events, sent, notifyCount,
                                delivered >>
           ELSE /\ events' = Append(events, << "notify", idx, row >>)
                /\ sent' = Append(sent, [idx |-> idx, name |-> corp_name,
                                         rcept_no |-> row, text |-> ai_result])
                /\ notifyCount' = [notifyCount EXCEPT ![row] = @ + 1]
                /\ delivered' = IF outcome = "accepted"
                                THEN delivered \cup {row}
                                ELSE delivered
                /\ updated_state' = DictSet(updated_state, corp_name, row)
                /\ new_filings' = Tail(new_filings)
                /\ raw_content' = "none"
                /\ ai_result' = "none"
                /\ IF Tail(new_filings) = << >>
                   THEN pc' = "loop" /\ idx' = idx + 1
                   ELSE pc' = "extract" /\ idx' = idx
                /\ UNCHANGED failedAt
    /\ UNCHANGED << stateFile, corp_codes, filer, runs, state, companies,
                    listed, last_list, writes, degraded >>

\* the dump indented into the for loop: written once a company is done
PersistState_InsideLoop ==
    /\ pc = "loop" /\ idx > 1 /\ writes = 0
    /\ stateFile' = updated_state
    /\ writes' = writes + 1
    /\ pc' = IF idx > Len(companies) THEN "done" ELSE pc
    /\ UNCHANGED << corp_codes, filer, runs, state, updated_state, companies,
                    idx, new_filings, raw_content, ai_result, listed,
                    last_list, events, sent, failedAt, notifyCount, delivered,
                    degraded, faults >>

\* after the for loop: json.dump(updated_state) over STATE_FILE
PersistState ==
    /\ pc = "loop" /\ idx > Len(companies)
    /\ stateFile' = updated_state
    /\ writes' = writes + 1
    /\ pc' = "done"
    /\ UNCHANGED << corp_codes, filer, runs, state, updated_state, companies,
                    idx, new_filings, raw_content, ai_result, listed,
                    last_list, events, sent, failedAt, notifyCount, delivered,
                    degraded, faults >>

\* ------------------------------------- analyze_content, the length cap
Filler(n) == [i \in 1..n |-> 65]

\* The extracted texts tried: very short ones and ones around the budget,
\* each as plain filler and as filler followed by the marker's characters,
\* with and without its leading newline (a document whose last line is
\* that text).
TextLengths ==
    (0..MaxShort)
    \cup ((max_length - Len(TruncationMarker) - 1)..(max_length + MaxOver))
ExtractedTexts ==
    {Filler(n) \o tail :
        n \in TextLengths,
        tail \in {<< >>, TruncationMarker, Tail(TruncationMarker)}}

\* the cap with >= for >: a text of exactly max_length gets the marker
LimitLength_CutAtBudget(raw) ==
    IF Len(raw) >= max_length
    THEN SubSeq(raw, 1, max_length) \o TruncationMarker
    ELSE raw

\* if len(raw_content) > max_length: raw_content[:max_length] + marker
LimitLength(raw) ==
    IF Len(raw) > max_length
    THEN SubSeq(raw, 1, max_length) \o TruncationMarker
    ELSE raw

\* an extracted text handed to analyze_content's length cap
InitCap ==
    /\ Init_run
    /\ companies = << >>
    /\ filer = [r \in Rcepts |-> "c1"]
    /\ raw_text \in ExtractedTexts
    /\ content_to_analyze = << >>
    /\ tpc = "extracted"

CapContent ==
    /\ tpc = "extracted"
    /\ content_to_analyze' = LimitLength(raw_text)
    /\ tpc' = "capped"
    /\ UNCHANGED raw_text

NextCap == CapContent /\ UNCHANGED runVars

SpecCap == InitCap /\ [][NextCap]_vars

Next ==
    \/ (MainNoCompaniesFile /\ UNCHANGED textVars)
    \/ (MainLoad /\ UNCHANGED textVars)
    \/ (SkipUnresolved /\ UNCHANGED textVars)
    \/ (ListFilings /\ UNCHANGED textVars)
    \/ (Extract /\ UNCHANGED textVars)
    \/ (Summarize /\ UNCHANGED textVars)
    \/ (Notify /\ UNCHANGED textVars)
    \/ (PersistState /\ UNCHANGED textVars)

Spec == Init /\ [][Next]_vars

\* =================================================================== claims
Pipeline == {"extract", "summarize", "notify"}

Max(S) == CHOOSE x \in S : \A y \in S : y <= x

\* two mappings have the same entry for name: the same value, or none
SameEntry(a, b, name) ==
    /\ (name \in DOMAIN a) <=> (name \in DOMAIN b)
    /\ name \in DOMAIN a => a[name] = b[name]

EndsWith(s, suffix) ==
    /\ Len(s) >= Len(suffix)
    /\ SubSeq(s, Len(s) - Len(suffix) + 1, Len(s)) = suffix

\* the receipt numbers of company c that the listing of this run held and
\* that are greater than the cursor the run started with
Candidates(c) == {r \in listed[c] : r > DictGet(state, c, DefaultRcept)}

\* the greatest receipt number of S, or the all-zeros default
MaxOrDefault(S) == IF S = {} THEN DefaultRcept ELSE Max(S)

Ascending(s) == \A i, j \in DOMAIN s : i < j => s[i] < s[j]

\* C1: over all runs, no filing is notified more than once.
C1_AtMostOnce == \A r \in Rcepts : notifyCount[r] <= 1

\* C2: after a run that ends normally, the persisted cursor of every company
\* whose listing held filings above its starting cursor is the greatest of
\* them.
C2_CursorIsLastCandidate ==
    pc = "done" =>
        \A c \in CompanyNames :
            Candidates(c) # {} =>
                /\ c \in DOMAIN stateFile
                /\ stateFile[c] = Max(Candidates(c))

C2_Witness ==
    /\ pc = "done"
    /\ runs = 2
    /\ \E c \in CompanyNames :
        /\ c \in DOMAIN state
        /\ Candidates(c) # {}
        /\ stateFile[c] > state[c]

\* C3: between runs, the stored cursor of every company is the greatest
\* receipt number delivered for it so far, and a run never leaves a stored
\* cursor lower than it found it.
C3_CursorIsMaxDelivered ==
    Ended =>
        \A c \in CompanyNames :
            /\ DictGet(stateFile, c, DefaultRcept)
                   = MaxOrDefault({r \in delivered : filer[r] = c})
            /\ DictGet(stateFile, c, DefaultRcept)
                   >= DictGet(state, c, DefaultRcept)

\* C4: a filing whose extraction or summarization failed is notified all the
\* same, in the run in which it failed, and is never taken up again.
C4_DegradedNotifiedOnce ==
    \A r \in degraded :
        \/ pc \in Pipeline /\ row = r /\ notifyCount[r] = 0
        \/ ~(pc \in Pipeline /\ row = r) /\ notifyCount[r] = 1

\* C5: a failure of send_telegram never ends the run.
C5_DeliveryFailureNotFatal == ~(pc = "aborted" /\ failedAt = "send_telegram")

\* C6: an empty or error answer of the listing API never ends the run: the
\* company is passed over and the loop goes on.
C6_ListingFailureNotFatal ==
    ~(pc = "aborted" /\ failedAt = "get_recent_filings")

\* C7: a company of the watch list that does not resolve to a code gets no
\* notification in the run, and its cursor entry stays what the run loaded.
C7_UnresolvedUntouched ==
    \A c \in Range(companies) \ corp_codes :
        /\ \A i \in DOMAIN sent : sent[i].name # c
        /\ pc \in Pipeline \cup {"loop", "aborted"}
               => SameEntry(updated_state, state, c)
        /\ pc = "done" => SameEntry(stateFile, state, c)

C7_Witness ==
    /\ pc = "done"
    /\ \E c \in Range(companies) \ corp_codes :
        /\ c \in DOMAIN state
        /\ \E r \in Rcepts : filer[r] = c /\ r > state[c]

\* C8 (as amended): a run that gets past the watch-list check writes the
\* cursor file exactly once if it ends normally, and only after the last
\* company was handled; a run that aborts, or that returns early because
\* the watch-list file is missing, does not write it.
C8_WriteOnceAtEnd ==
    /\ writes <= 1
    /\ pc = "done" => writes = 1
    /\ pc \in {"aborted", "returned"} => writes = 0
    /\ writes = 1 => pc = "done" /\ idx > Len(companies)

C8_Witness ==
    /\ pc = "done"
    /\ writes = 1
    /\ Len(companies) = 2
    /\ sent # << >>

\* C8 as stated: every run that ends normally has written the file exactly
\* once (a return is a normal end), and an aborted run has not written it.
C8_Original ==
    /\ writes <= 1
    /\ pc \in {"done", "returned"} => writes = 1
    /\ pc = "aborted" => writes = 0
    /\ writes = 1 => pc = "done" /\ idx > Len(companies)

\* C9 (as amended): the capped text is never longer than the budget plus
\* the marker; a text over the budget becomes its first max_length
\* characters followed by the marker; any other text is left as it is.
C9_CapContract ==
    tpc = "capped" =>
        /\ Len(content_to_analyze) <= max_length + Len(TruncationMarker)
        /\ Len(raw_text) > max_length =>
            /\ Len(content_to_analyze) = max_length + Len(TruncationMarker)
            /\ EndsWith(content_to_analyze, TruncationMarker)
            /\ \A i \in 1..max_length : content_to_analyze[i] = raw_text[i]
        /\ Len(raw_text) <= max_length => content_to_analyze = raw_text

C9_Witness ==
    /\ tpc = "capped"
    /\ Len(raw_text) = max_length + 1
    /\ EndsWith(content_to_analyze, TruncationMarker)
    /\ Len(content_to_analyze) = max_length + Len(TruncationMarker)

\* C9 as stated: the bound, and the capped text ends with the marker exactly
\* when the extracted text was over the budget.
C9_Original ==
    tpc = "capped" =>
        /\ Len(content_to_analyze) <= max_length + Len(TruncationMarker)
        /\ EndsWith(content_to_analyze, TruncationMarker)
               <=> Len(raw_text) > max_length
        /\ Len(raw_text) > max_length =>
               content_to_analyze
                   = SubSeq(raw_text, 1, max_length) \o TruncationMarker
        /\ Len(raw_text) <= max_length => content_to_analyze = raw_text

\* C10: the notifications of a run follow the watch list, and within one
\* company they go up strictly by receipt number; the steps of one filing
\* (extract, summarize, notify) are over before those of the next begin.
C10_SequentialAscending ==
    /\ \A i, j \in DOMAIN sent :
        i < j =>
            \/ sent[i].idx < sent[j].idx
            \/ sent[i].idx = sent[j].idx /\ sent[i].rcept_no < sent[j].rcept_no
    /\ \A i \in DOMAIN sent : sent[i].name = companies[sent[i].idx]
    /\ \A k \in DOMAIN events :
        /\ k % 3 = 1 => events[k][1] = "extract"
        /\ k % 3 = 2 => /\ events[k][1] = "summarize"
                        /\ events[k][2] = events[k - 1][2]
                        /\ events[k][3] = events[k - 1][3]
        /\ k % 3 = 0 => /\ events[k][1] = "notify"
                        /\ events[k][2] = events[k - 1][2]
                        /\ events[k][3] = events[k - 1][3]
                        /\ sent[k \div 3].rcept_no = events[k][3]

C10_Witness ==
    /\ pc = "done"
    /\ ~Ascending(last_list)
    /\ Len(sent) >= 2
    /\ Candidates(companies[Len(companies)]) = Range(last_list)

====
